---- MODULE Spec2Model ----
(***************************************************************************)
(* A model of the actuarial loss-ratio Slack bot (src/app.py).             *)
(*                                                                         *)
(*  - calculate_loss_ratio, format_slack_response and                      *)
(*    answer_actuarial_question are operators.                             *)
(*  - The three process-wide globals LAST_UPLOADED_FILE,                   *)
(*    LAST_UPLOADED_FILE_NAME and LAST_ANALYSIS_RESULT are variables.      *)
(*  - The Flask handlers run in concurrent worker threads; every handler   *)
(*    is cut into steps at its reads and writes of the globals, so that    *)
(*    the interleavings the code allows are the interleavings of the       *)
(*    model.                                                               *)
(*                                                                         *)
(* Text is a sequence of one-character strings; None is a value that no    *)
(* text equals.  Numbers are exact: a loss ratio is a fraction <<n, d>>    *)
(* in lowest terms with d > 0.                                             *)
(***************************************************************************)
EXTENDS Integers, Sequences, FiniteSets

(***************************************************************************)
(* Bounds of the model.                                                    *)
(***************************************************************************)
MaxRows == 2
NThreads == 2
MaxTasks == 1

(***************************************************************************)
(* Configuration (src/app.py:13-18).                                       *)
(***************************************************************************)
None == <<"None">>
NoResult == [none |-> TRUE]
EXCEL_FILE == <<"d", ".", "x", "l", "s", "x">>
LOSS_RATIO_THRESHOLD == 75
DEEPSEEK_CONFIGURED == TRUE

(***************************************************************************)
(* Text helpers: str.startswith, str.endswith, str.strip.                  *)
(***************************************************************************)
startswith(s, prefix) ==
  /\ Len(prefix) <= Len(s)
  /\ SubSeq(s, 1, Len(prefix)) = prefix

endswith(s, suffix) ==
  /\ Len(suffix) <= Len(s)
  /\ SubSeq(s, Len(s) - Len(suffix) + 1, Len(s)) = suffix

RECURSIVE lstrip(_)
lstrip(s) ==
  IF s # <<>> /\ Head(s) = " " THEN lstrip(Tail(s)) ELSE s

RECURSIVE rstrip(_)
rstrip(s) ==
  IF s # <<>> /\ s[Len(s)] = " " THEN rstrip(SubSeq(s, 1, Len(s) - 1)) ELSE s

\* The question as it would be read without .strip().
strip_nothing(s) == s

strip(s) == rstrip(lstrip(s))

(***************************************************************************)
(* Exact arithmetic.                                                       *)
(***************************************************************************)
Abs(n) == IF n < 0 THEN 0 - n ELSE n

RECURSIVE GCD(_, _)
GCD(a, b) == IF b = 0 THEN a ELSE GCD(b, a % b)

\* The fraction n/d (d # 0) in lowest terms, the denominator positive.
Fraction(n, d) ==
  LET g == GCD(Abs(n), Abs(d))
      m == IF d < 0 THEN 0 - n ELSE n
  IN  <<m \div g, Abs(d) \div g>>

\* format spec ",.0f" applied to a whole number: sign and groups of three digits.
RECURSIVE Groups(_)
Groups(n) ==
  IF n < 1000 THEN <<n>> ELSE Append(Groups(n \div 1000), n % 1000)

Currency(n) == [negative |-> n < 0, groups |-> Groups(Abs(n))]

\* format spec ".1f" applied to the fraction q: the nearest number of tenths,
\* a tie going to the even one.
Fixed1(q) ==
  LET t == q[1] * 10
      lo == t \div q[2]
      rem == t % q[2]
  IN  IF 2 * rem < q[2] THEN lo
      ELSE IF 2 * rem > q[2] THEN lo + 1
      ELSE IF lo % 2 = 0 THEN lo ELSE lo + 1

(***************************************************************************)
(* Tabular input.  A table is what pandas.read_excel returns: the set of   *)
(* its column names and its rows, each row a function of the columns.      *)
(* Reading a source yields a table or fails.                               *)
(***************************************************************************)
ColumnNames == {"Premium", "Claims"}
PremiumValues == {-1000, 0, 1000, 2000}
ClaimValues == {-500, 0, 500, 1900}

CellValues(c) == IF c = "Premium" THEN PremiumValues ELSE ClaimValues

RowsOf(cols) ==
  {r \in [cols -> PremiumValues \cup ClaimValues] : \A c \in cols : r[c] \in CellValues(c)}

RECURSIVE SeqsUpTo(_, _)
SeqsUpTo(S, n) ==
  IF n = 0 THEN {<<>>}
  ELSE LET shorter == SeqsUpTo(S, n - 1)
       IN  shorter \cup {Append(s, x) : s \in {q \in shorter : Len(q) = n - 1}, x \in S}

Tables ==
  UNION {{[columns |-> cols, rows |-> rows] : rows \in SeqsUpTo(RowsOf(cols), MaxRows)} :
         cols \in SUBSET ColumnNames}

LoadFailures ==
  { [kind |-> "FileNotFoundError"],
    [kind |-> "RequestException"],
    [kind |-> "Exception"] }

Loads == {[kind |-> "table", table |-> t] : t \in Tables} \cup LoadFailures

(***************************************************************************)
(* calculate_loss_ratio, from the outcome of reading the source on.        *)
(***************************************************************************)
RECURSIVE ColumnSum(_, _)
ColumnSum(rows, c) ==
  IF rows = <<>> THEN 0 ELSE rows[1][c] + ColumnSum(Tail(rows), c)

required_columns == <<"Premium", "Claims">>

IsMissing(columns, c) == c \notin columns

missing_columns(df) ==
  SelectSeq(required_columns, LAMBDA c : IsMissing(df.columns, c))

\* The guard as it would read had it been written "!= 0".
loss_ratio_guard_nonzero(total_premium) == total_premium # 0

loss_ratio_guard(total_premium) == total_premium > 0

loss_ratio(total_claims, total_premium) ==
  IF loss_ratio_guard(total_premium)
  THEN Fraction(total_claims * 100, total_premium)
  ELSE <<0, 1>>

\* The count as it would read were a header row taken off it.
num_policies_less_header(df) == Len(df.rows) - 1

num_policies(df) == Len(df.rows)

analyse(read) ==
  IF read.kind = "FileNotFoundError" THEN
    [success |-> FALSE, error |-> [kind |-> "not_found"]]
  ELSE IF read.kind = "RequestException" THEN
    [success |-> FALSE, error |-> [kind |-> "download_failed"]]
  ELSE IF read.kind = "Exception" THEN
    [success |-> FALSE, error |-> [kind |-> "read_error"]]
  ELSE
    LET df == read.table IN
    IF missing_columns(df) # <<>> THEN
      [success |-> FALSE,
       error |-> [kind |-> "missing_columns", columns |-> missing_columns(df)]]
    ELSE
      LET total_premium == ColumnSum(df.rows, "Premium")
          total_claims == ColumnSum(df.rows, "Claims")
      IN  [success |-> TRUE,
           premium |-> total_premium,
           claims |-> total_claims,
           loss_ratio |-> loss_ratio(total_claims, total_premium),
           num_policies |-> num_policies(df)]

(***************************************************************************)
(* The sources the service can read (the environment of lines 41-52): two  *)
(* uploaded files behind Slack URLs and the default workbook on disk.      *)
(***************************************************************************)
UrlA == <<"h", "t", "t", "p", "s", ":", "A">>
UrlB == <<"h", "t", "t", "p", "s", ":", "B">>
UrlC == <<"h", "t", "t", "p", "s", ":", "C">>

BothColumns == {"Premium", "Claims"}

TableA ==
  [columns |-> BothColumns,
   rows |-> << [Premium |-> 1000, Claims |-> 500], [Premium |-> 2000, Claims |-> 1900] >>]

TableB == [columns |-> {"Premium"}, rows |-> << [Premium |-> 1000] >>]

TableDefault ==
  [columns |-> BothColumns, rows |-> << [Premium |-> 2000, Claims |-> 500] >>]

Truthy(s) == s # None /\ s # <<>>

Remote(url) ==
  IF url = UrlA THEN [kind |-> "table", table |-> TableA]
  ELSE IF url = UrlB THEN [kind |-> "table", table |-> TableB]
  ELSE [kind |-> "RequestException"]

Local(path) ==
  IF path = EXCEL_FILE THEN [kind |-> "table", table |-> TableDefault]
  ELSE [kind |-> "FileNotFoundError"]

Fetch(file_source) ==
  IF Truthy(file_source) /\ startswith(file_source, <<"h", "t", "t", "p">>)
  THEN Remote(file_source)
  ELSE IF Truthy(file_source) THEN Local(file_source)
  ELSE Local(EXCEL_FILE)

calculate_loss_ratio(file_source) == analyse(Fetch(file_source))

(***************************************************************************)
(* format_slack_response and send_message_to_channel.  A message text is   *)
(* the record of the parts the f-strings put into it.                      *)
(***************************************************************************)
exceeds_threshold(q) == q[1] > LOSS_RATIO_THRESHOLD * q[2]

format_slack_response(result, file_name, include_ai) ==
  IF ~result.success THEN
    [response_type |-> "in_channel",
     text |-> [kind |-> "error",
               file_info |-> IF Truthy(file_name) THEN file_name ELSE None,
               error |-> result.error]]
  ELSE
    [response_type |-> "in_channel",
     text |-> [kind |-> "analysis",
               file_header |-> IF Truthy(file_name) THEN file_name ELSE None,
               premium |-> Currency(result.premium),
               claims |-> Currency(result.claims),
               loss_ratio |-> Fixed1(result.loss_ratio),
               policies |-> result.num_policies,
               warning |-> exceeds_threshold(result.loss_ratio),
               ai_insights |-> include_ai /\ DEEPSEEK_CONFIGURED]]

\* The chat_postMessage call that send_message_to_channel makes.
send_message_to_channel(channel_id, result, file_name, include_ai) ==
  [channel |-> channel_id,
   text |-> format_slack_response(result, file_name, include_ai).text]

(***************************************************************************)
(* answer_actuarial_question.  completion is the outcome of the external   *)
(* completion call: "text" or "error".                                     *)
(***************************************************************************)
Completions == {"text", "error"}

answer_actuarial_question(question, context_result, completion) ==
  IF context_result = NoResult \/ ~context_result.success
  THEN [kind |-> "no_analysis_data"]
  ELSE IF completion = "text" THEN [kind |-> "ai_answer"]
  ELSE [kind |-> "apology"]

(***************************************************************************)
(* Requests.                                                               *)
(***************************************************************************)
Channels == {"C1", "C2"}
Challenge == <<"a", "b", "c", "1", "2", "3">>

FileA == [name |-> <<"a", ".", "x", "l", "s", "x">>, url_private |-> UrlA]
FileB == [name |-> <<"b", ".", "x", "l", "s">>, url_private |-> UrlB]
FileC == [name |-> <<"c", ".", "c", "s", "v">>, url_private |-> UrlC]
FileX == [name |-> <<"x", "l", "s", "x">>, url_private |-> UrlC]
FileU == [name |-> None, url_private |-> UrlA]

\* An event without the key 'files' has files = <<>>.
NoEvent == [type |-> "absent", files |-> <<>>, channel |-> "C1"]
TextMessage == [type |-> "message", files |-> <<>>, channel |-> "C1"]
Mention == [type |-> "app_mention", files |-> <<FileA>>, channel |-> "C1"]
Share(files, channel) == [type |-> "message", files |-> files, channel |-> channel]

Events ==
  { NoEvent, TextMessage, Mention,
    Share(<<FileA>>, "C1"), Share(<<FileA>>, "C2"), Share(<<FileB>>, "C1"),
    Share(<<FileC>>, "C1"), Share(<<FileC>>, "C2"), Share(<<FileX>>, "C1"),
    Share(<<FileU>>, "C2"), Share(<<FileC, FileA>>, "C1") }

\* The handshake and the retries are tried on three payloads, one of them a
\* spreadsheet upload; Slack sends every event without either.
EventRequests ==
  [challenge : {None, Challenge}, retry : BOOLEAN,
   event : {NoEvent, Share(<<FileA>>, "C1"), Share(<<FileC>>, "C2")}]
  \cup [challenge : {None}, retry : {FALSE}, event : Events]

ExplainRequests ==
  { [text |-> <<>>, channel_id |-> "C1"],
    [text |-> <<" ">>, channel_id |-> "C2"],
    [text |-> <<"q">>, channel_id |-> "C1"],
    [text |-> <<" ", "q", " ">>, channel_id |-> "C2"] }

LossRatioRequest == [command |-> "/lossratio"]

(***************************************************************************)
(* State.                                                                  *)
(***************************************************************************)
VARIABLES
  LAST_UPLOADED_FILE,       \* app.py:22
  LAST_UPLOADED_FILE_NAME,  \* app.py:23
  LAST_ANALYSIS_RESULT,     \* app.py:24
  pc,           \* pc[t]: where worker thread t stands in its handler
  frame,        \* frame[t]: the request and the local variables of thread t
  tasks,        \* the started background threads of explain_command that have not run yet
  last_by,        \* the handler or task that finished most recently, and
  last_request,   \*   the request it served,
  last_response,  \*   the HTTP response it returned,
  last_post,      \*   the chat_postMessage call it made,
  last_analysed,  \*   the source it called calculate_loss_ratio with,
  last_alone,     \*   whether no other thread took a step while it ran,
  last_context,   \*   the result it handed to answer_actuarial_question
  undisturbed,  \* the thread, if any, since whose request arrived no other thread has taken a step
  loaded,       \* input of the calculator on its own: the outcome of reading a source
  calc_result   \* output of the calculator on its own

session == <<LAST_UPLOADED_FILE, LAST_UPLOADED_FILE_NAME, LAST_ANALYSIS_RESULT>>
calc_vars == <<loaded, calc_result>>
last ==
  <<last_by, last_request, last_response, last_post, last_analysed, last_alone,
    last_context>>
vars ==
  <<LAST_UPLOADED_FILE, LAST_UPLOADED_FILE_NAME, LAST_ANALYSIS_RESULT,
    pc, frame, tasks, last, undisturbed, loaded, calc_result>>

Threads == 1 .. NThreads

IdleFrame == [handler |-> "idle"]
NoRequest == [none |-> TRUE]
NoResponse == [none |-> TRUE]
NoPost == [none |-> TRUE]
NotRun == <<"not run">>
OK == [status |-> "ok"]

WebInit ==
  /\ LAST_UPLOADED_FILE = None
  /\ LAST_UPLOADED_FILE_NAME = None
  /\ LAST_ANALYSIS_RESULT = NoResult
  /\ pc = [t \in Threads |-> "idle"]
  /\ frame = [t \in Threads |-> IdleFrame]
  /\ tasks = <<>>
  /\ last_by = "none"
  /\ last_request = NoRequest
  /\ last_response = NoResponse
  /\ last_post = NoPost
  /\ last_analysed = NotRun
  /\ last_alone = FALSE
  /\ last_context = NoResult
  /\ undisturbed = {}

Init ==
  /\ WebInit
  /\ loaded = [kind |-> "FileNotFoundError"]
  /\ calc_result = NoResult

(***************************************************************************)
(* slack_events (app.py:232-291).  The handler decides on the payload and  *)
(* the headers alone which way it goes; only the Excel branch touches the  *)
(* globals, one store at a time.                                           *)
(***************************************************************************)
has_challenge(r) == r.challenge # None
\* The retry check as it would be were the header never looked at.
is_retry_never(r) == FALSE

is_retry(r) == r.retry
is_file_share(event) == event.type = "message" /\ event.files # <<>>

first_file_url(r) == r.event.files[1].url_private
first_file_name(r) ==
  IF r.event.files[1].name = None
  THEN <<"u", "n", "k", "n", "o", "w", "n">>
  ELSE r.event.files[1].name

is_excel(file_name) ==
  \/ endswith(file_name, <<".", "x", "l", "s", "x">>)
  \/ endswith(file_name, <<".", "x", "l", "s">>)

\* The routing as it would be with the retry header looked at first.
Route_retry_first(r) ==
  IF is_retry(r) THEN "retry"
  ELSE IF has_challenge(r) THEN "challenge"
  ELSE IF ~is_file_share(r.event) THEN "ignore"
  ELSE IF is_excel(first_file_name(r)) THEN "excel"
  ELSE "not_excel"

Route(r) ==
  IF has_challenge(r) THEN "challenge"
  ELSE IF is_retry(r) THEN "retry"
  ELSE IF ~is_file_share(r.event) THEN "ignore"
  ELSE IF is_excel(first_file_name(r)) THEN "excel"
  ELSE "not_excel"

\* The way of every request, worked out once.
Routes == [r \in EventRequests |-> Route(r)]

\* The server hands an arriving request to a free worker thread; which one is
\* immaterial, and the model takes the first.
free(t) == pc[t] = "idle" /\ \A u \in Threads : u < t => pc[u] # "idle"

\* A handler that finishes in the step in which its request arrives.
Finish(t, handler, r, response, post, analysed) ==
  /\ last_by' = handler
  /\ last_request' = r
  /\ last_response' = response
  /\ last_post' = post
  /\ last_analysed' = analysed
  /\ last_alone' = (t \in undisturbed)
  /\ last_context' = NoResult
  /\ pc' = [pc EXCEPT ![t] = "idle"]
  /\ frame' = [frame EXCEPT ![t] = IdleFrame]
  /\ undisturbed' = {}

\* lines 242-244
SE_Challenge(t, r) ==
  /\ free(t)
  /\ Routes[r] = "challenge"
  /\ Finish(t, "slack_events", r, [challenge |-> r.challenge], NoPost, NotRun)
  /\ UNCHANGED <<session, tasks, calc_vars>>

\* lines 247-249
SE_Retry(t, r) ==
  /\ free(t)
  /\ Routes[r] = "retry"
  /\ Finish(t, "slack_events", r, OK, NoPost, NotRun)
  /\ UNCHANGED <<session, tasks, calc_vars>>

\* lines 252-258, 291: not a message that carries files
SE_Ignore(t, r) ==
  /\ free(t)
  /\ Routes[r] = "ignore"
  /\ Finish(t, "slack_events", r, OK, NoPost, NotRun)
  /\ UNCHANGED <<session, tasks, calc_vars>>

\* The rejection as it would be were the file remembered before its name is checked.
SE_NotExcel_remembering(t, r) ==
  /\ free(t)
  /\ Routes[r] = "not_excel"
  /\ LAST_UPLOADED_FILE' = first_file_url(r)
  /\ LAST_UPLOADED_FILE_NAME' = first_file_name(r)
  /\ LET error_result ==
           [success |-> FALSE,
            error |-> [kind |-> "not_excel", file_name |-> first_file_name(r)]]
     IN  Finish(t, "slack_events", r, OK,
                send_message_to_channel(r.event.channel, error_result, None, FALSE),
                NotRun)
  /\ UNCHANGED <<LAST_ANALYSIS_RESULT, tasks, calc_vars>>

\* lines 282-291
SE_NotExcel(t, r) ==
  /\ free(t)
  /\ Routes[r] = "not_excel"
  /\ LET error_result ==
           [success |-> FALSE,
            error |-> [kind |-> "not_excel", file_name |-> first_file_name(r)]]
     IN  Finish(t, "slack_events", r, OK,
                send_message_to_channel(r.event.channel, error_result, None, FALSE),
                NotRun)
  /\ UNCHANGED <<session, tasks, calc_vars>>

\* lines 259-269: the store of LAST_UPLOADED_FILE
SE_StoreFile(t, r) ==
  /\ free(t)
  /\ Routes[r] = "excel"
  /\ LAST_UPLOADED_FILE' = first_file_url(r)
  /\ pc' = [pc EXCEPT ![t] = "se_name"]
  /\ frame' = [frame EXCEPT ![t] =
                 [handler |-> "slack_events", request |-> r,
                  file_url |-> first_file_url(r), file_name |-> first_file_name(r)]]
  /\ undisturbed' = {t}
  /\ UNCHANGED <<LAST_UPLOADED_FILE_NAME, LAST_ANALYSIS_RESULT, tasks, last, calc_vars>>

\* line 270: the store of LAST_UPLOADED_FILE_NAME
SE_StoreName(t) ==
  /\ pc[t] = "se_name"
  /\ LAST_UPLOADED_FILE_NAME' = frame[t].file_name
  /\ pc' = [pc EXCEPT ![t] = "se_calc"]
  /\ undisturbed' = undisturbed \cap {t}
  /\ UNCHANGED <<LAST_UPLOADED_FILE, LAST_ANALYSIS_RESULT, frame, tasks, last, calc_vars>>

\* The analysis as it would be without the store of line 278.
SE_StoreResult_unsaved(t) ==
  /\ pc[t] = "se_calc"
  /\ frame' = [frame EXCEPT ![t] =
                 [handler |-> "slack_events", request |-> frame[t].request,
                  file_url |-> frame[t].file_url, file_name |-> frame[t].file_name,
                  result |-> calculate_loss_ratio(frame[t].file_url)]]
  /\ pc' = [pc EXCEPT ![t] = "se_send"]
  /\ undisturbed' = undisturbed \cap {t}
  /\ UNCHANGED <<session, tasks, last, calc_vars>>

\* The analysis as it would be were the global, not the local file_url, analysed.
SE_StoreResult_of_global(t) ==
  /\ pc[t] = "se_calc"
  /\ LET result == calculate_loss_ratio(LAST_UPLOADED_FILE)
     IN  /\ LAST_ANALYSIS_RESULT' = result
         /\ frame' = [frame EXCEPT ![t] =
                        [handler |-> "slack_events", request |-> frame[t].request,
                         file_url |-> frame[t].file_url, file_name |-> frame[t].file_name,
                         result |-> result]]
  /\ pc' = [pc EXCEPT ![t] = "se_send"]
  /\ undisturbed' = undisturbed \cap {t}
  /\ UNCHANGED <<LAST_UPLOADED_FILE, LAST_UPLOADED_FILE_NAME, tasks, last, calc_vars>>

\* lines 275-278: the analysis of the local file_url and the store of
\* LAST_ANALYSIS_RESULT
SE_StoreResult(t) ==
  /\ pc[t] = "se_calc"
  /\ LET result == calculate_loss_ratio(frame[t].file_url)
     IN  /\ LAST_ANALYSIS_RESULT' = result
         /\ frame' = [frame EXCEPT ![t] =
                        [handler |-> "slack_events", request |-> frame[t].request,
                         file_url |-> frame[t].file_url, file_name |-> frame[t].file_name,
                         result |-> result]]
  /\ pc' = [pc EXCEPT ![t] = "se_send"]
  /\ undisturbed' = undisturbed \cap {t}
  /\ UNCHANGED <<LAST_UPLOADED_FILE, LAST_UPLOADED_FILE_NAME, tasks, last, calc_vars>>

\* lines 281, 291
SE_Send(t) ==
  /\ pc[t] = "se_send"
  /\ Finish(t, "slack_events", frame[t].request, OK,
            send_message_to_channel(frame[t].request.event.channel, frame[t].result,
                                    frame[t].file_name, TRUE),
            frame[t].file_url)
  /\ UNCHANGED <<session, tasks, calc_vars>>

\* The step in which the request r arrives at thread t.
slack_events(t, r) ==
  \/ SE_Challenge(t, r)
  \/ SE_Retry(t, r)
  \/ SE_Ignore(t, r)
  \/ SE_NotExcel(t, r)
  \/ SE_StoreFile(t, r)

(***************************************************************************)
(* lossratio_command (app.py:293-318).                                     *)
(***************************************************************************)
\* line 304, the stored file is there: the first read of LAST_UPLOADED_FILE
LR_UseLast(t) ==
  /\ free(t)
  /\ Truthy(LAST_UPLOADED_FILE)
  /\ pc' = [pc EXCEPT ![t] = "lr_calc"]
  /\ frame' = [frame EXCEPT ![t] = [handler |-> "lossratio"]]
  /\ undisturbed' = {}
  /\ UNCHANGED <<session, tasks, last, calc_vars>>

\* line 306: the second read of LAST_UPLOADED_FILE, and the analysis of what it read
LR_CalcLast(t) ==
  /\ pc[t] = "lr_calc"
  /\ pc' = [pc EXCEPT ![t] = "lr_name"]
  /\ frame' = [frame EXCEPT ![t] =
                 [handler |-> "lossratio", analysed |-> LAST_UPLOADED_FILE,
                  result |-> calculate_loss_ratio(LAST_UPLOADED_FILE)]]
  /\ undisturbed' = {}
  /\ UNCHANGED <<session, tasks, last, calc_vars>>

\* line 307: the read of LAST_UPLOADED_FILE_NAME
LR_ReadName(t) ==
  /\ pc[t] = "lr_name"
  /\ pc' = [pc EXCEPT ![t] = "lr_store"]
  /\ frame' = [frame EXCEPT ![t] =
                 [handler |-> "lossratio", analysed |-> frame[t].analysed,
                  result |-> frame[t].result, file_name |-> LAST_UPLOADED_FILE_NAME]]
  /\ undisturbed' = {}
  /\ UNCHANGED <<session, tasks, last, calc_vars>>

\* lines 304, 308-311, no stored file: the analysis of the default source
LR_UseDefault(t) ==
  /\ free(t)
  /\ ~Truthy(LAST_UPLOADED_FILE)
  /\ pc' = [pc EXCEPT ![t] = "lr_store"]
  /\ frame' = [frame EXCEPT ![t] =
                 [handler |-> "lossratio", analysed |-> None,
                  result |-> calculate_loss_ratio(None), file_name |-> None]]
  /\ undisturbed' = {}
  /\ UNCHANGED <<session, tasks, last, calc_vars>>

\* The response as it would be without the store of line 314.
LR_StoreResult_unsaved(t) ==
  /\ pc[t] = "lr_store"
  /\ Finish(t, "lossratio", LossRatioRequest,
            format_slack_response(frame[t].result, frame[t].file_name, TRUE),
            NoPost, frame[t].analysed)
  /\ UNCHANGED <<session, tasks, calc_vars>>

\* lines 314-318: the store of LAST_ANALYSIS_RESULT and the response
LR_StoreResult(t) ==
  /\ pc[t] = "lr_store"
  /\ LAST_ANALYSIS_RESULT' = frame[t].result
  /\ Finish(t, "lossratio", LossRatioRequest,
            format_slack_response(frame[t].result, frame[t].file_name, TRUE),
            NoPost, frame[t].analysed)
  /\ UNCHANGED <<LAST_UPLOADED_FILE, LAST_UPLOADED_FILE_NAME, tasks, calc_vars>>

lossratio_command(t) == LR_UseLast(t) \/ LR_UseDefault(t)

(***************************************************************************)
(* explain_command (app.py:320-376) and the background thread it starts.   *)
(***************************************************************************)
AskForQuestion == [response_type |-> "ephemeral", text |-> [kind |-> "ask_question"]]
NoAnalysisData == [response_type |-> "ephemeral", text |-> [kind |-> "no_data"]]
Thinking(question) ==
  [response_type |-> "in_channel", text |-> [kind |-> "thinking", question |-> question]]

\* Background threads started and not yet run, and handlers that may start one.
Outstanding == Len(tasks) + Cardinality({t \in Threads : pc[t] = "ex_check"})

\* lines 330-338
EX_NoQuestion(t, r) ==
  /\ free(t)
  /\ strip(r.text) = <<>>
  /\ Finish(t, "explain", r, AskForQuestion, NoPost, NotRun)
  /\ UNCHANGED <<session, tasks, calc_vars>>

\* line 341, "not LAST_ANALYSIS_RESULT" holds: nothing stored
EX_NothingStored(t, r) ==
  /\ free(t)
  /\ strip(r.text) # <<>>
  /\ LAST_ANALYSIS_RESULT = NoResult
  /\ Finish(t, "explain", r, NoAnalysisData, NoPost, NotRun)
  /\ UNCHANGED <<session, tasks, calc_vars>>

\* line 341, "not LAST_ANALYSIS_RESULT" does not hold: on to the second read
EX_SomethingStored(t, r) ==
  /\ free(t)
  /\ strip(r.text) # <<>>
  /\ LAST_ANALYSIS_RESULT # NoResult
  /\ Outstanding < MaxTasks
  /\ pc' = [pc EXCEPT ![t] = "ex_check"]
  /\ frame' = [frame EXCEPT ![t] =
                 [handler |-> "explain", request |-> r, question |-> strip(r.text)]]
  /\ undisturbed' = {}
  /\ UNCHANGED <<session, tasks, last, calc_vars>>

stored_success == LAST_ANALYSIS_RESULT # NoResult /\ LAST_ANALYSIS_RESULT.success

\* lines 341-345, "not LAST_ANALYSIS_RESULT.get('success')" holds
EX_Failed(t) ==
  /\ pc[t] = "ex_check"
  /\ ~stored_success
  /\ Finish(t, "explain", frame[t].request, NoAnalysisData, NoPost, NotRun)
  /\ UNCHANGED <<session, tasks, calc_vars>>

\* lines 349-376: the acknowledgment and the start of the background thread
EX_Start(t) ==
  /\ pc[t] = "ex_check"
  /\ stored_success
  /\ tasks' = Append(tasks, [question |-> frame[t].question,
                             channel_id |-> frame[t].request.channel_id,
                             validated |-> LAST_ANALYSIS_RESULT])
  /\ Finish(t, "explain", frame[t].request, Thinking(frame[t].question), NoPost, NotRun)
  /\ UNCHANGED <<session, calc_vars>>

explain_command(t, r) ==
  EX_NoQuestion(t, r) \/ EX_NothingStored(t, r) \/ EX_SomethingStored(t, r)

\* The context as it would be had the thread been given the validated result.
answer_context_validated(task) == task.validated

\* The context the background thread hands to answer_actuarial_question (line 362).
answer_context(task) == LAST_ANALYSIS_RESULT

Remove(s, i) == SubSeq(s, 1, i - 1) \o SubSeq(s, i + 1, Len(s))

\* lines 357-370
generate_and_post_answer(i) ==
  /\ i \in 1 .. Len(tasks)
  /\ last_by' = "task"
  /\ last_request' = tasks[i]
  /\ last_response' = NoResponse
  /\ last_analysed' = NotRun
  /\ last_alone' = FALSE
  /\ last_context' = answer_context(tasks[i])
  /\ \E completion \in Completions :
       LET answer == answer_actuarial_question(tasks[i].question,
                                               answer_context(tasks[i]), completion)
       IN  last_post' = [channel |-> tasks[i].channel_id,
                         text |-> [kind |-> "ai_answer_message", answer |-> answer]]
  /\ tasks' = Remove(tasks, i)
  /\ undisturbed' = {}
  /\ UNCHANGED <<session, pc, frame, calc_vars>>

(***************************************************************************)
(* The service.                                                            *)
(***************************************************************************)
Next ==
  \/ \E t \in Threads, r \in EventRequests : SE_Challenge(t, r)
  \/ \E t \in Threads, r \in EventRequests : SE_Retry(t, r)
  \/ \E t \in Threads, r \in EventRequests : SE_Ignore(t, r)
  \/ \E t \in Threads, r \in EventRequests : SE_NotExcel(t, r)
  \/ \E t \in Threads, r \in EventRequests : SE_StoreFile(t, r)
  \/ \E t \in Threads : SE_StoreName(t)
  \/ \E t \in Threads : SE_StoreResult(t)
  \/ \E t \in Threads : SE_Send(t)
  \/ \E t \in Threads : LR_UseLast(t)
  \/ \E t \in Threads : LR_CalcLast(t)
  \/ \E t \in Threads : LR_ReadName(t)
  \/ \E t \in Threads : LR_UseDefault(t)
  \/ \E t \in Threads : LR_StoreResult(t)
  \/ \E t \in Threads, r \in ExplainRequests : EX_NoQuestion(t, r)
  \/ \E t \in Threads, r \in ExplainRequests : EX_NothingStored(t, r)
  \/ \E t \in Threads, r \in ExplainRequests : EX_SomethingStored(t, r)
  \/ \E t \in Threads : EX_Failed(t)
  \/ \E t \in Threads : EX_Start(t)
  \/ \E i \in 1 .. MaxTasks : generate_and_post_answer(i)

Spec == Init /\ [][Next]_vars

(***************************************************************************)
(* The calculator on its own: any outcome of reading a source, analysed.   *)
(***************************************************************************)
InitCalc ==
  /\ WebInit
  /\ loaded \in Loads
  /\ calc_result = NoResult

Calculate ==
  /\ calc_result = NoResult
  /\ calc_result' = analyse(loaded)
  /\ UNCHANGED <<session, pc, frame, tasks, last, undisturbed, loaded>>

NextCalc == Calculate

SpecCalc == InitCalc /\ [][NextCalc]_vars

(***************************************************************************)
(* Properties of the calculator (checked under SpecCalc).                  *)
(***************************************************************************)
calculated == calc_result # NoResult
has_both_columns == loaded.kind = "table" /\ BothColumns \subseteq loaded.table.columns

\* The total of column c over the first n rows.
RECURSIVE TotalOfFirst(_, _, _)
TotalOfFirst(rows, c, n) ==
  IF n = 0 THEN 0 ELSE TotalOfFirst(rows, c, n - 1) + rows[n][c]

sum_premium == TotalOfFirst(loaded.table.rows, "Premium", Len(loaded.table.rows))
sum_claims == TotalOfFirst(loaded.table.rows, "Claims", Len(loaded.table.rows))

non_negative_entries ==
  \A i \in 1 .. Len(loaded.table.rows) :
    loaded.table.rows[i]["Premium"] >= 0 /\ loaded.table.rows[i]["Claims"] >= 0

\* C1: for every table with a Premium and a Claims column the result is a
\* success whose ratio is sum(Claims)/sum(Premium)*100 when sum(Premium) > 0
\* and 0 when sum(Premium) <= 0.
C1_Ratio ==
  (calculated /\ has_both_columns) =>
    /\ calc_result.success
    /\ sum_premium > 0 =>
         /\ calc_result.loss_ratio[2] > 0
         /\ calc_result.loss_ratio[1] * sum_premium
              = sum_claims * 100 * calc_result.loss_ratio[2]
    /\ sum_premium <= 0 => calc_result.loss_ratio[1] = 0

\* A ratio that is not a whole number of percent has been computed.
C1_Witness ==
  /\ calculated /\ has_both_columns
  /\ sum_premium > 0 /\ sum_claims > 0
  /\ calc_result.loss_ratio[2] > 1

\* C8 as stated: every successful result has premium >= 0, claims >= 0 and
\* record_count >= 0, tables with negative entries included.
C8_Original ==
  (calculated /\ calc_result.success) =>
    /\ calc_result.premium >= 0
    /\ calc_result.claims >= 0
    /\ calc_result.num_policies >= 0

\* C8 as amended: every successful result has record_count >= 0, and has
\* premium >= 0 and claims >= 0 when no entry of the table is negative.
C8_Amended ==
  (calculated /\ calc_result.success) =>
    /\ calc_result.num_policies >= 0
    /\ non_negative_entries => (calc_result.premium >= 0 /\ calc_result.claims >= 0)

\* A table of two rows without negative entries has been analysed.
C8_Witness ==
  /\ calculated /\ calc_result.success
  /\ non_negative_entries
  /\ calc_result.num_policies >= 2
  /\ calc_result.premium > 0 /\ calc_result.claims > 0

(***************************************************************************)
(* Properties of the service (checked under Spec).                         *)
(***************************************************************************)
\* What the analysis of each source must come to.
ExpectedResult(source) ==
  IF source = UrlA THEN
    [success |-> TRUE, premium |-> 3000, claims |-> 2400,
     loss_ratio |-> <<80, 1>>, num_policies |-> 2]
  ELSE IF source = UrlB THEN
    [success |-> FALSE,
     error |-> [kind |-> "missing_columns", columns |-> <<"Claims">>]]
  ELSE IF source = None THEN
    [success |-> TRUE, premium |-> 2000, claims |-> 500,
     loss_ratio |-> <<25, 1>>, num_policies |-> 1]
  ELSE [success |-> FALSE, error |-> [kind |-> "download_failed"]]

HasSuffix(s, suffix) ==
  /\ Len(s) >= Len(suffix)
  /\ \A i \in 1 .. Len(suffix) : s[Len(s) - Len(suffix) + i] = suffix[i]

\* The event is a message with files whose first file has a spreadsheet name.
named_spreadsheet(event) ==
  /\ event.files[1].name # None
  /\ \/ HasSuffix(event.files[1].name, <<".", "x", "l", "s", "x">>)
     \/ HasSuffix(event.files[1].name, <<".", "x", "l", "s">>)

shares_file(event) == event.type = "message" /\ Len(event.files) > 0

blank(text) == \A i \in 1 .. Len(text) : text[i] = " "

all_idle == \A t \in Threads : pc[t] = "idle"

\* The payloads with a challenge field.
ChallengeRequests == {r \in EventRequests : r.challenge # None}

\* The requests with the retry header and without a challenge field.
RetriedRequests == {r \in EventRequests : r.challenge = None /\ r.retry}

\* The file-share events whose first file is not named as a spreadsheet.
OtherFileShares ==
  {r \in EventRequests :
     /\ r.challenge = None /\ ~r.retry
     /\ shares_file(r.event) /\ ~named_spreadsheet(r.event)}

\* C2: a payload with a challenge field gets exactly the challenge back, and
\* nothing else happens: no Session State field changes, nothing is analysed,
\* nothing is posted, no background work starts - whatever event the payload
\* carries and whether or not the retry header is set.
C2_ChallengeOnly ==
  [][\A t \in Threads, r \in ChallengeRequests :
       slack_events(t, r) =>
         /\ last_response' = [challenge |-> r.challenge]
         /\ last_post' = NoPost
         /\ last_analysed' = NotRun
         /\ pc'[t] = "idle"
         /\ UNCHANGED <<session, tasks>>]_vars

\* A challenge has been echoed for a retried payload that carries a
\* spreadsheet upload, with a file and a result in Session State.
C2_Witness ==
  /\ last_by = "slack_events"
  /\ last_request.challenge = Challenge
  /\ last_request.retry
  /\ shares_file(last_request.event) /\ named_spreadsheet(last_request.event)
  /\ last_response = [challenge |-> Challenge]
  /\ LAST_UPLOADED_FILE = UrlB
  /\ LAST_ANALYSIS_RESULT # NoResult

\* C3: a file-share event whose first file is not named *.xlsx or *.xls gets
\* one error message posted to its channel and leaves the three Session State
\* fields as they were.
C3_NotASpreadsheet ==
  [][\A t \in Threads, r \in OtherFileShares :
       slack_events(t, r) =>
         /\ last_post'.channel = r.event.channel
         /\ last_post'.text.kind = "error"
         /\ last_post'.text.error.kind = "not_excel"
         /\ last_response' = OK
         /\ pc'[t] = "idle"
         /\ UNCHANGED session]_vars

\* A .csv upload has been turned down while Session State held a file and
\* its result.
C3_Witness ==
  /\ last_by = "slack_events"
  /\ last_request = [challenge |-> None, retry |-> FALSE, event |-> Share(<<FileC>>, "C2")]
  /\ last_post.channel = "C2"
  /\ last_post.text.kind = "error"
  /\ LAST_UPLOADED_FILE = UrlA
  /\ LAST_UPLOADED_FILE_NAME = FileA.name
  /\ LAST_ANALYSIS_RESULT = ExpectedResult(UrlA)

\* C7: a request with the retry header and without a challenge is
\* acknowledged in one step: nothing is analysed, nothing is posted and no
\* Session State field changes.
C7_RetryIgnored ==
  [][\A t \in Threads, r \in RetriedRequests :
       slack_events(t, r) =>
         /\ last_response' = OK
         /\ last_post' = NoPost
         /\ last_analysed' = NotRun
         /\ pc'[t] = "idle"
         /\ UNCHANGED <<session, tasks>>]_vars

\* The retry of a spreadsheet upload has been acknowledged while nothing of
\* that upload is in Session State.
C7_Witness ==
  /\ last_by = "slack_events"
  /\ last_request.challenge = None
  /\ last_request.retry
  /\ last_request.event = Share(<<FileA>>, "C1")
  /\ last_response = OK
  /\ LAST_UPLOADED_FILE = UrlB
  /\ all_idle

started(t, at) == pc[t] = at /\ pc'[t] # at

\* C4: an Explain request starts the background answer exactly when its text
\* is not blank and the stored result, at the time the handler reads it, is a
\* success.  Blank text gets the ask-for-a-question response, whatever is
\* stored; no result or a failed result gets the no-data response; neither
\* starts background work, and no step of the handler changes Session State.
C4_Explain ==
  [][/\ \A t \in Threads, r \in ExplainRequests :
          explain_command(t, r) =>
            /\ UNCHANGED <<session, tasks>>
            /\ blank(r.text) => (last_response' = AskForQuestion /\ pc'[t] = "idle")
            /\ (~blank(r.text) /\ LAST_ANALYSIS_RESULT = NoResult) =>
                 (last_response' = NoAnalysisData /\ pc'[t] = "idle")
            /\ (~blank(r.text) /\ LAST_ANALYSIS_RESULT # NoResult) =>
                 (last' = last /\ pc'[t] = "ex_check")
     /\ \A t \in Threads :
          started(t, "ex_check") =>
            /\ UNCHANGED session
            /\ pc'[t] = "idle"
            /\ IF LAST_ANALYSIS_RESULT # NoResult /\ LAST_ANALYSIS_RESULT.success
               THEN /\ Len(tasks') = Len(tasks) + 1
                    /\ last_response'.text.kind = "thinking"
               ELSE /\ tasks' = tasks
                    /\ last_response' = NoAnalysisData
     /\ Len(tasks') > Len(tasks) =>
          \E t \in Threads :
            /\ started(t, "ex_check")
            /\ ~blank(frame[t].request.text)
            /\ LAST_ANALYSIS_RESULT # NoResult /\ LAST_ANALYSIS_RESULT.success]_vars

\* An Explain request with a question has started its background answer.
C4_Witness ==
  /\ last_by = "explain"
  /\ ~blank(last_request.text)
  /\ last_response.text.kind = "thinking"
  /\ Len(tasks) > 0
  /\ LAST_ANALYSIS_RESULT # NoResult /\ LAST_ANALYSIS_RESULT.success

\* C5: /lossratio analyses the stored locator when there is one and the
\* default source when there is none; it overwrites the stored result with the
\* result of that analysis, answers with the message formatted from the same
\* result, and leaves the stored locator and name as they are.
C5_Analysis ==
  [][\A t \in Threads :
       /\ lossratio_command(t) =>
            /\ UNCHANGED session
            /\ IF LAST_UPLOADED_FILE # None
               THEN pc'[t] = "lr_calc"
               ELSE /\ pc'[t] = "lr_store"
                    /\ frame'[t].analysed = None
                    /\ frame'[t].result = ExpectedResult(None)
                    /\ frame'[t].file_name = None
       /\ started(t, "lr_calc") =>
            /\ UNCHANGED session
            /\ pc'[t] = "lr_name"
            /\ frame'[t].analysed = LAST_UPLOADED_FILE
            /\ frame'[t].result = ExpectedResult(LAST_UPLOADED_FILE)
       /\ started(t, "lr_name") =>
            /\ UNCHANGED session
            /\ pc'[t] = "lr_store"
            /\ frame'[t].analysed = frame[t].analysed
            /\ frame'[t].result = frame[t].result
       /\ started(t, "lr_store") =>
            /\ LAST_ANALYSIS_RESULT' = frame[t].result
            /\ UNCHANGED <<LAST_UPLOADED_FILE, LAST_UPLOADED_FILE_NAME>>
            /\ pc'[t] = "idle"
            /\ last_by' = "lossratio"
            /\ last_analysed' = frame[t].analysed
            /\ last_response' =
                 format_slack_response(frame[t].result, frame[t].file_name, TRUE)
            /\ last_post' = NoPost]_vars

\* /lossratio has analysed the stored upload and stored what it answered with.
C5_Witness ==
  /\ last_by = "lossratio"
  /\ last_analysed = UrlA
  /\ LAST_UPLOADED_FILE = UrlA
  /\ LAST_ANALYSIS_RESULT = ExpectedResult(UrlA)
  /\ last_response = format_slack_response(ExpectedResult(UrlA), FileA.name, TRUE)

\* C6: when a spreadsheet upload is handled with no step of another request
\* in between, then at the time its message is posted Session State holds the
\* file's locator, the file's name and the result of analysing that locator;
\* nothing is posted before, and the message is formatted from that result.
C6_UploadStoredThenSent ==
  [][\A t \in Threads :
       /\ ( /\ pc[t] \in {"idle", "se_name", "se_calc"}
            /\ pc'[t] \in {"se_name", "se_calc", "se_send"}
            /\ pc'[t] # pc[t] ) =>
            last' = last
       /\ (started(t, "se_send") /\ t \in undisturbed) =>
            LET file_info == frame[t].request.event.files[1] IN
            /\ LAST_UPLOADED_FILE = file_info.url_private
            /\ LAST_UPLOADED_FILE_NAME = file_info.name
            /\ LAST_ANALYSIS_RESULT = ExpectedResult(file_info.url_private)
            /\ UNCHANGED session
            /\ last_post' =
                 [channel |-> frame[t].request.event.channel,
                  text |-> format_slack_response(LAST_ANALYSIS_RESULT,
                                                 file_info.name, TRUE).text]]_vars

\* An upload whose analysis failed has been stored and reported, with nothing
\* in between.
C6_Witness ==
  /\ last_by = "slack_events"
  /\ last_alone
  /\ last_analysed = UrlB
  /\ last_post.text.kind = "error"
  /\ LAST_UPLOADED_FILE = UrlB
  /\ LAST_UPLOADED_FILE_NAME = FileB.name
  /\ LAST_ANALYSIS_RESULT = ExpectedResult(UrlB)

\* C9: no handler looks at the stored locator when it stores its result: an
\* upload stores the result of its own file and /lossratio the result it
\* computed earlier, so that handlers running together can leave a stored
\* result that is not the result of the stored file.
C9_UnguardedStores ==
  [][\A t \in Threads :
       /\ started(t, "se_calc") =>
            LAST_ANALYSIS_RESULT' =
              ExpectedResult(frame[t].request.event.files[1].url_private)
       /\ started(t, "lr_store") =>
            LAST_ANALYSIS_RESULT' = frame[t].result]_vars

\* Every handler has finished; the stored locator and name are those of the
\* upload that finished last, and the stored result is neither the result of
\* that file nor what the upload reported to its channel.
C9_Witness ==
  /\ all_idle /\ tasks = <<>>
  /\ last_by = "slack_events"
  /\ last_analysed = LAST_UPLOADED_FILE
  /\ LAST_UPLOADED_FILE = last_request.event.files[1].url_private
  /\ LAST_UPLOADED_FILE_NAME = last_request.event.files[1].name
  /\ LAST_ANALYSIS_RESULT # ExpectedResult(LAST_UPLOADED_FILE)
  /\ last_post.text =
       format_slack_response(ExpectedResult(LAST_UPLOADED_FILE),
                             LAST_UPLOADED_FILE_NAME, TRUE).text
  /\ last_post.text #
       format_slack_response(LAST_ANALYSIS_RESULT, LAST_UPLOADED_FILE_NAME, TRUE).text

\* C10 as stated: every background answer is made from a successful result,
\* the one the handler validated, and never posts the no-analysis-data text.
C10_Original ==
  last_by = "task" =>
    /\ last_context = last_request.validated
    /\ last_context.success
    /\ last_post.text.answer.kind # "no_analysis_data"

\* C10 as amended: every background answer is made from the result that is
\* stored when the thread runs; it posts the no-analysis-data text exactly
\* when that result is a failure.
C10_Amended ==
  [][Len(tasks') < Len(tasks) =>
       /\ last_by' = "task"
       /\ last_context' = LAST_ANALYSIS_RESULT
       /\ last_post'.text.answer.kind = "no_analysis_data"
            <=> ~LAST_ANALYSIS_RESULT.success]_vars

\* A background answer started on a successful result has posted the
\* no-analysis-data text.
C10_Witness ==
  /\ last_by = "task"
  /\ last_request.validated.success
  /\ ~last_context.success
  /\ last_post.text.answer.kind = "no_analysis_data"

====
